---- MODULE Spec2Model ----
(***************************************************************************)
(* A model of the deduction core and game loop of src/solver.py: the       *)
(* feedback classifier get_feedback, the candidate filter filter_words,    *)
(* the hard-mode check enforce_hard_mode, the entropy selector             *)
(* entropy_score and the loop of play_wordle.  The browser is the          *)
(* environment: it accepts a guess and answers with a feedback code or     *)
(* with nothing (read_feedback returning None).                            *)
(***************************************************************************)
EXTENDS Integers, Sequences, FiniteSets

\* Word length: range(5) in get_feedback, the len(...) == 5 filters of the loaders.
WordLen == 5
\* The round cap of play_wordle: while attempts < 6.
MaxAttempts == 6
\* How many words of WordList make up wordle_answers.txt and wordle_guesses.txt.
NumAnswers == 7
NumGuesses == 8
\* How many letters the words fed to get_feedback on its own are drawn from.
NumLetters == 3

Pos == 0 .. (WordLen - 1)
\* Python's None, where a letter is expected (a consumed letter of answer_chars)
\* and where a word or a feedback code is expected (read_feedback's None,
\* next_guess before the scan).
None == "None"
Nothing == <<>>

\* A word is a function from Pos to letters (Python's 0-based indexing).
W(s) == [i \in Pos |-> s[i + 1]]

\* The contents of the two word files, in file order.  The answers are a prefix
\* of the guesses, which satisfies the assert of line 47.
WordList ==
  << W(<<"g","r","a","i","n">>),
     W(<<"t","o","u","c","h">>),
     W(<<"s","m","e","l","l">>),
     W(<<"t","h","o","s","e">>),
     W(<<"s","w","e","l","l">>),
     W(<<"s","t","e","e","l">>),
     W(<<"s","h","e","l","l">>),
     W(<<"s","l","o","t","h">>),
     W(<<"t","r","a","i","n">>),
     W(<<"s","l","e","e","p">>) >>

\* The opening guess of play_wordle.
SeedGuess == W(<<"g","r","a","i","n">>)

POSSIBLE_ANSWERS == SubSeq(WordList, 1, NumAnswers)
ALLOWED_GUESSES == SubSeq(WordList, 1, NumGuesses)

Range(s) == {s[k] : k \in 1 .. Len(s)}

\* The feedback codes read_feedback can return for a row of five tiles.
FeedbackCodes == [Pos -> {"G", "Y", "."}]
AllCorrect == [i \in Pos |-> "G"]

\* The letters and words get_feedback is exercised on by itself.
Alphabet == {<<"s", "e", "l", "t">>[k] : k \in 1 .. NumLetters}
AllWords == [Pos -> Alphabet]

\* The locals of play_wordle: candidates (a list of words), known_greens
\* (position -> letter), known_yellows (letter -> set of positions),
\* previous_guesses (a set of words), attempts, guess.
\* status: where the loop is: "Guessing" at the head of an iteration, or the
\*   exit taken: "Solved" (line 255), "CouldNotRead" (line 250),
\*   "NoValidGuesses" (line 274), "Exhausted" (attempts < 6 false).
\* history: the calls made to the page, in order: the guess entered by
\*   enter_guess and what read_feedback returned for it.
\* fb_guess, fb_answer, fb_result: the arguments and the result of a call of
\*   get_feedback on its own.
VARIABLES candidates, known_greens, known_yellows, previous_guesses, attempts,
          guess, status, history, fb_guess, fb_answer, fb_result

vars == <<candidates, known_greens, known_yellows, previous_guesses, attempts,
          guess, status, history, fb_guess, fb_answer, fb_result>>

game_vars == <<candidates, known_greens, known_yellows, previous_guesses, attempts,
               guess, status, history>>

----------------------------------------------------------------------------
\* get_feedback with a single pass: a yellow for every non-green letter that
\* occurs anywhere in the answer, with no letter consumed.
get_feedback_single_pass(g, answer) ==
  [i \in Pos |-> IF g[i] = answer[i] THEN "G"
                 ELSE IF \E j \in Pos : answer[j] = g[i] THEN "Y" ELSE "."]

\* get_feedback: greens first, consuming the matched letters of the answer; then,
\* left to right, a yellow for each non-green letter still found among the
\* unconsumed letters, consuming its first occurrence (answer_chars.index).
get_feedback(g, answer) ==
  LET feedback0 == [i \in Pos |-> IF g[i] = answer[i] THEN "G" ELSE "."]
      answer_chars0 == [i \in Pos |-> IF g[i] = answer[i] THEN None ELSE answer[i]]
      RECURSIVE second_pass(_, _, _)
      second_pass(i, feedback, answer_chars) ==
        IF i = WordLen THEN feedback
        ELSE IF feedback[i] = "." /\ \E j \in Pos : answer_chars[j] = g[i]
             THEN LET index == CHOOSE j \in Pos :
                                 /\ answer_chars[j] = g[i]
                                 /\ \A m \in Pos : m < j => answer_chars[m] # g[i]
                  IN  second_pass(i + 1, [feedback EXCEPT ![i] = "Y"],
                                  [answer_chars EXCEPT ![index] = None])
             ELSE second_pass(i + 1, feedback, answer_chars)
  IN  second_pass(0, feedback0, answer_chars0)

\* filter_words with the arguments of get_feedback exchanged.
filter_words_swapped(cands, g, feedback) ==
  SelectSeq(cands, LAMBDA w : get_feedback(w, g) = feedback)

\* filter_words: the candidates the guess would have produced this feedback for,
\* in their order.
filter_words(cands, g, feedback) ==
  SelectSeq(cands, LAMBDA w : get_feedback(g, w) = feedback)

\* enforce_hard_mode without the check of the greens.
enforce_hard_mode_no_greens(g, greens, yellows) ==
  \A ch \in DOMAIN yellows :
    /\ \E i \in Pos : g[i] = ch
    /\ ~ \E pos \in yellows[ch] : g[pos] = ch

\* enforce_hard_mode: every known green in place; every known-yellow letter
\* present and at none of its forbidden positions.
enforce_hard_mode(g, greens, yellows) ==
  /\ \A i \in DOMAIN greens : g[i] = greens[i]
  /\ \A ch \in DOMAIN yellows :
       /\ \E i \in Pos : g[i] = ch
       /\ ~ \E pos \in yellows[ch] : g[pos] = ch

\* The partition counts of entropy_score, in the insertion order of the
\* defaultdict: the order in which the feedbacks first occur along the candidates.
partitions(g, cands) ==
  LET RECURSIVE count_from(_, _)
      count_from(k, parts) ==
        IF k > Len(cands) THEN parts
        ELSE LET fb == get_feedback(g, cands[k])
                 at == {j \in 1 .. Len(parts) : parts[j].fb = fb}
             IN  IF at = {}
                 THEN count_from(k + 1, Append(parts, [fb |-> fb, count |-> 1]))
                 ELSE count_from(k + 1,
                        [parts EXCEPT ![CHOOSE j \in at : TRUE].count = @ + 1])
  IN  count_from(1, <<>>)

\* The binary64 value that lines 140-145 of entropy_score compute for a sequence
\* of partition counts, given as its rank among the values computed for the same
\* total (a larger rank is a larger float).  Row N holds the 2^(N-1) ordered
\* sequences of positive counts that sum to N, the sequence c1, ..., ck at index
\* 1 + the sum of 2^(s-1) over its partial sums s = c1, c1+c2, ... below N.
\* Sequences with the same counts in another order are the same real number
\* but not always the same float: for N = 6, <<1,2,1,1,1>> (index 11) is
\* 2.2516291673878226 and <<1,1,1,2,1>> (index 16) is 2.251629167387823.
EntropyRankTable ==
  << <<0>>,
     <<0, 1>>,
     <<0, 1, 1, 2>>,
     <<0, 1, 2, 3, 1, 3, 3, 4>>,
     <<0, 1, 2, 3, 2, 4, 4, 5, 1, 3, 4, 5, 3, 5, 5, 6>>,
     <<0, 1, 2, 4, 3, 6, 6, 9, 2, 5, 7, 11, 5, 11, 11, 12, 1, 4, 6, 8, 6, 10, 10, 13, 4, 8, 10,
       12, 8, 12, 12, 14>>,
     <<0, 1, 2, 4, 3, 5, 5, 8, 3, 6, 7, 11, 6, 11, 11, 15, 2, 5, 7, 10, 7, 13, 13, 17, 5, 10,
       13, 18, 10, 18, 18, 19, 1, 4, 5, 9, 6, 10, 10, 15, 5, 10, 14, 18, 10, 18, 18, 19, 4, 9,
       12, 16, 12, 18, 18, 19, 9, 16, 18, 20, 16, 20, 20, 21>>,
     <<0, 1, 2, 5, 3, 6, 6, 9, 4, 7, 8, 11, 7, 11, 11, 14, 3, 7, 10, 12, 10, 13, 13, 15, 7, 12,
       13, 15, 12, 15, 15, 17, 2, 6, 8, 11, 10, 13, 13, 15, 8, 13, 14, 16, 13, 16, 16, 18, 6,
       11, 13, 15, 13, 16, 16, 18, 11, 15, 16, 18, 15, 18, 18, 19, 1, 5, 6, 9, 7, 11, 11, 14,
       7, 12, 13, 15, 12, 15, 15, 17, 6, 11, 13, 15, 13, 16, 16, 18, 11, 15, 16, 18, 15, 18,
       18, 19, 5, 9, 11, 14, 12, 15, 15, 17, 11, 15, 16, 18, 15, 18, 18, 19, 9, 14, 15, 17, 15,
       18, 18, 19, 14, 17, 18, 19, 17, 19, 19, 20>> >>

\* The index of a sequence of partition counts in its row of EntropyRankTable.
composition_index(parts) ==
  LET RECURSIVE walk(_, _, _)
      walk(j, s, code) ==
        IF j >= Len(parts) THEN code
        ELSE walk(j + 1, s + parts[j].count, code + 2 ^ (s + parts[j].count - 1))
  IN  1 + walk(1, 0, 0)

\* entropy_score: the sum over the partitions, in insertion order, of
\* -p * log2(p); the integer 0 when there are no candidates (no partition, the
\* loop of line 142 runs no iteration and count / total is never evaluated).
entropy_score(g, cands) ==
  LET parts == partitions(g, cands)
      total == Len(cands)
  IN  IF total = 0 THEN 0
      ELSE EntropyRankTable[total][composition_index(parts)]

\* Lines 276-282: the first word of the pool whose score exceeds every score
\* before it.
select_guess(pool, cands) ==
  LET RECURSIVE scan(_, _, _)
      scan(k, best_score, next_guess) ==
        IF k > Len(pool) THEN next_guess
        ELSE LET e == entropy_score(pool[k], cands)
             IN  IF e > best_score THEN scan(k + 1, e, pool[k])
                 ELSE scan(k + 1, best_score, next_guess)
  IN  scan(1, -1, Nothing)

\* update_greens recording a green for the yellow tiles too.
update_greens_with_yellows(greens, g, feedback) ==
  [i \in DOMAIN greens \cup {p \in Pos : feedback[p] \in {"G", "Y"}} |->
     IF feedback[i] \in {"G", "Y"} THEN g[i] ELSE greens[i]]

\* Lines 258-260: known_greens[i] = guess[i] for each green tile.
update_greens(greens, g, feedback) ==
  [i \in DOMAIN greens \cup {p \in Pos : feedback[p] = "G"} |->
     IF feedback[i] = "G" THEN g[i] ELSE greens[i]]

\* update_yellows that keeps the letters but not where they were seen.
update_yellows_no_position(yellows, g, feedback) ==
  [ch \in DOMAIN yellows \cup {g[p] : p \in {q \in Pos : feedback[q] = "Y"}} |->
     IF ch \in DOMAIN yellows THEN yellows[ch] ELSE {}]

\* Lines 261-262: known_yellows[guess[i]].add(i) for each yellow tile.
update_yellows(yellows, g, feedback) ==
  [ch \in DOMAIN yellows \cup {g[p] : p \in {q \in Pos : feedback[q] = "Y"}} |->
     (IF ch \in DOMAIN yellows THEN yellows[ch] ELSE {})
       \cup {p \in Pos : feedback[p] = "Y" /\ g[p] = ch}]

\* guess_pool without the filter on the guesses already made.
guess_pool_with_repeats(greens, yellows, tried) ==
  SelectSeq(ALLOWED_GUESSES, LAMBDA g : enforce_hard_mode(g, greens, yellows))

\* Lines 269-270: the allowed guesses that pass hard mode and were not tried.
guess_pool(greens, yellows, tried) ==
  SelectSeq(ALLOWED_GUESSES,
            LAMBDA g : enforce_hard_mode(g, greens, yellows) /\ g \notin tried)

----------------------------------------------------------------------------
\* The state of play_wordle when the loop is entered.
GameInit ==
  /\ candidates = POSSIBLE_ANSWERS
  /\ known_greens = [i \in {} |-> None]
  /\ known_yellows = [ch \in {} |-> {}]
  /\ previous_guesses = {}
  /\ attempts = 0
  /\ guess = SeedGuess
  /\ status = "Guessing"
  /\ history = <<>>

Idle == fb_guess = Nothing /\ fb_answer = Nothing /\ fb_result = Nothing

Init == GameInit /\ Idle

\* The iteration of a missing feedback going round again instead of breaking.
FeedbackUnavailable_retry ==
  /\ status = "Guessing"
  /\ history' = Append(history, [guess |-> guess, feedback |-> Nothing])
  /\ UNCHANGED <<candidates, known_greens, known_yellows, previous_guesses,
                 attempts, guess, status, fb_guess, fb_answer, fb_result>>

\* One iteration in which read_feedback returns None: the guess was entered,
\* "Could not read feedback." and break.
FeedbackUnavailable ==
  /\ status = "Guessing"
  /\ history' = Append(history, [guess |-> guess, feedback |-> Nothing])
  /\ status' = "CouldNotRead"
  /\ UNCHANGED <<candidates, known_greens, known_yellows, previous_guesses,
                 attempts, guess, fb_guess, fb_answer, fb_result>>

\* One iteration in which the feedback is GGGGG: "Wordle solved!" and break.
FeedbackAllCorrect ==
  /\ status = "Guessing"
  /\ history' = Append(history, [guess |-> guess, feedback |-> AllCorrect])
  /\ status' = "Solved"
  /\ UNCHANGED <<candidates, known_greens, known_yellows, previous_guesses,
                 attempts, guess, fb_guess, fb_answer, fb_result>>

\* The iteration of a feedback without attempts += 1.
FeedbackRound_no_count(feedback) ==
  /\ status = "Guessing"
  /\ feedback # AllCorrect
  /\ history' = Append(history, [guess |-> guess, feedback |-> feedback])
  /\ known_greens' = update_greens(known_greens, guess, feedback)
  /\ known_yellows' = update_yellows(known_yellows, guess, feedback)
  /\ candidates' = filter_words(candidates, guess, feedback)
  /\ previous_guesses' = previous_guesses \cup {guess}
  /\ LET pool == guess_pool(known_greens', known_yellows', previous_guesses')
     IN  IF pool = <<>>
         THEN /\ status' = "NoValidGuesses"
              /\ UNCHANGED guess
         ELSE /\ guess' = select_guess(pool, candidates')
              /\ status' = "Guessing"
  /\ UNCHANGED <<attempts, fb_guess, fb_answer, fb_result>>

\* One iteration with any other feedback: the constraints are updated, the
\* candidates pruned, the guess recorded, and either the pool is empty ("No
\* valid guesses left!" and break) or the next guess is selected and attempts
\* counted, which ends the loop when it reaches the cap.
FeedbackRound(feedback) ==
  /\ status = "Guessing"
  /\ feedback # AllCorrect
  /\ history' = Append(history, [guess |-> guess, feedback |-> feedback])
  /\ known_greens' = update_greens(known_greens, guess, feedback)
  /\ known_yellows' = update_yellows(known_yellows, guess, feedback)
  /\ candidates' = filter_words(candidates, guess, feedback)
  /\ previous_guesses' = previous_guesses \cup {guess}
  /\ LET pool == guess_pool(known_greens', known_yellows', previous_guesses')
     IN  IF pool = <<>>
         THEN /\ status' = "NoValidGuesses"
              /\ UNCHANGED <<guess, attempts>>
         ELSE /\ guess' = select_guess(pool, candidates')
              /\ attempts' = attempts + 1
              /\ status' = IF attempts + 1 < MaxAttempts THEN "Guessing"
                           ELSE "Exhausted"
  /\ UNCHANGED <<fb_guess, fb_answer, fb_result>>

Next ==
  \/ FeedbackUnavailable
  \/ FeedbackAllCorrect
  \/ \E feedback \in FeedbackCodes : FeedbackRound(feedback)

Spec == Init /\ [][Next]_vars

\* read_feedback always returns (it sleeps two seconds and reads the page), so
\* an iteration that has begun completes.
FairSpec == Spec /\ WF_vars(Next)

----------------------------------------------------------------------------
\* get_feedback on its own, on every pair of words over Alphabet.
FeedbackInit ==
  /\ GameInit
  /\ fb_guess \in AllWords
  /\ fb_answer \in AllWords
  /\ fb_result = Nothing

Classify ==
  /\ fb_result = Nothing
  /\ fb_result' = get_feedback(fb_guess, fb_answer)
  /\ UNCHANGED <<game_vars, fb_guess, fb_answer>>

FeedbackNext == Classify

FeedbackSpec == FeedbackInit /\ [][FeedbackNext]_vars

----------------------------------------------------------------------------
\* Definitions the properties below are stated with.

Terminal == status \in {"Solved", "CouldNotRead", "NoValidGuesses", "Exhausted"}
Stuck == status \in {"CouldNotRead", "NoValidGuesses"}

Min(x, y) == IF x <= y THEN x ELSE y

\* How many positions of S hold letter c in word w.
Occ(w, c, S) == Cardinality({i \in S : w[i] = c})

\* get_feedback on the words the game can submit and the words of the
\* vocabulary, evaluated once.
FeedbackOf ==
  [g \in Range(ALLOWED_GUESSES) \cup {SeedGuess}, a \in Range(ALLOWED_GUESSES) |->
     get_feedback(g, a)]

\* Every feedback observed so far is the one word a induces.
Truthful(a) ==
  \A k \in 1 .. Len(history) :
    history[k].feedback = FeedbackOf[history[k].guess, a]

\* The rounds whose feedback was read / was read and was not all-Correct.
Observed == {k \in 1 .. Len(history) : history[k].feedback # Nothing}
Applied == {k \in Observed : history[k].feedback # AllCorrect}

\* Word w is consistent with the feedback of round k.
ConsistentWith(w, k) ==
  FeedbackOf[history[k].guess, w] = history[k].feedback

\* Word w obeys the two hard-mode rules with respect to round k.
HonoursRound(w, k) ==
  LET r == history[k]
  IN  k \in Observed => \A i \in Pos :
        /\ r.feedback[i] = "G" => w[i] = r.guess[i]
        /\ r.feedback[i] = "Y" =>
             /\ \E p \in Pos : w[p] = r.guess[i]
             /\ w[i] # r.guess[i]

\* The product over the partitions of cands by get_feedback(g, .) of n^n: the
\* entropy of g is larger exactly when this product is smaller.
SizesProduct(g, cands) ==
  LET fbs == {FeedbackOf[g, cands[k]] : k \in 1 .. Len(cands)}
      n(f) == Cardinality({k \in 1 .. Len(cands) : FeedbackOf[g, cands[k]] = f})
      RECURSIVE prod(_)
      prod(S) == IF S = {} THEN 1
                 ELSE LET f == CHOOSE x \in S : TRUE
                      IN  (n(f) ^ n(f)) * prod(S \ {f})
  IN  prod(fbs)

\* The pool the guess in hand was selected from.
CurrentPool == guess_pool(known_greens, known_yellows, previous_guesses)
Selected == attempts > 0 /\ status \in {"Guessing", "Exhausted"}

----------------------------------------------------------------------------
\* C1: get_feedback(g, a) is the reference Wordle feedback.  Position i is
\* Correct exactly when g[i] = a[i], so the result is all-Correct iff g = a; for
\* every letter c the positions of g holding c that are Present number
\* min(occurrences of c in g at non-Correct positions, occurrences of c in a at
\* non-Correct positions) and are the leftmost such positions of g; every other
\* position is Absent.  A letter guessed twice that occurs once in the answer
\* gets exactly one Correct or Present tag.
C1_FeedbackIsReference ==
  fb_result # Nothing =>
    LET g == fb_guess
        a == fb_answer
        free == {i \in Pos : g[i] # a[i]}
        present(c) == {i \in Pos : g[i] = c /\ fb_result[i] = "Y"}
    IN  /\ fb_result \in FeedbackCodes
        /\ \A i \in Pos : fb_result[i] = "G" <=> g[i] = a[i]
        /\ fb_result = AllCorrect <=> g = a
        /\ \A c \in {g[i] : i \in Pos} :
             /\ present(c) \subseteq free
             /\ Cardinality(present(c)) = Min(Occ(g, c, free), Occ(a, c, free))
             /\ \A i \in present(c) :
                  \A j \in free : (j < i /\ g[j] = c) => j \in present(c)
             /\ (Occ(g, c, Pos) = 2 /\ Occ(a, c, Pos) = 1) =>
                  Cardinality({i \in Pos : g[i] = c /\ fb_result[i] # "."}) = 1

\* A letter guessed twice, once in the answer and in neither of the guessed
\* places: the left one is Present and the right one Absent.
C1_Witness ==
  /\ fb_result # Nothing
  /\ \E i, j \in Pos :
       /\ i < j
       /\ fb_guess[i] = fb_guess[j]
       /\ Occ(fb_guess, fb_guess[i], Pos) = 2
       /\ Occ(fb_answer, fb_guess[i], Pos) = 1
       /\ fb_result[i] = "Y"
       /\ fb_result[j] = "."

----------------------------------------------------------------------------
\* C2 as stated: under truthful feedback for an answer a of the answer
\* vocabulary, a is in the Candidate Set and the Candidate Set is exactly the
\* answers consistent with all the feedback observed so far.
C2_ExactlyTheConsistentAnswers ==
  \A a \in Range(POSSIBLE_ANSWERS) :
    Truthful(a) =>
      /\ a \in Range(candidates)
      /\ Range(candidates) =
           {w \in Range(POSSIBLE_ANSWERS) : \A k \in Observed : ConsistentWith(w, k)}

\* C2 as amended: under truthful feedback for an answer a of the answer
\* vocabulary, a is never pruned (and filter_words keeps every candidate under
\* the feedback it induces itself); the Candidate Set is exactly the answers
\* consistent with the feedback of every round that was not all-Correct: the
\* all-Correct feedback that ends the game is not applied to it.
C2_AnswerNeverPruned ==
  /\ \A a \in Range(POSSIBLE_ANSWERS) : Truthful(a) => a \in Range(candidates)
  /\ \A a \in Range(candidates) :
       a \in Range(filter_words(candidates, guess, get_feedback(guess, a)))
  /\ Range(candidates) =
       {w \in Range(POSSIBLE_ANSWERS) : \A k \in Applied : ConsistentWith(w, k)}

\* Two truthful rounds that were not all-Correct have narrowed the candidates
\* to fewer than at the start and more than one.
C2_Witness ==
  /\ Len(history) >= 2
  /\ Applied = 1 .. Len(history)
  /\ \E a \in Range(POSSIBLE_ANSWERS) : Truthful(a)
  /\ Len(candidates) > 1
  /\ Len(candidates) < Len(POSSIBLE_ANSWERS) - 1

\* C3: every guess after the first honours hard mode, whatever the feedback
\* was: for every earlier round and position, a Correct tag is repeated with the
\* same letter, and the letter of a Present tag occurs in the guess and not at
\* that position.  enforce_hard_mode on the accumulated constraints is true of a
\* word exactly when the word obeys both rules for every round applied.
C3_HardModeHonoured ==
  /\ \A k \in 2 .. Len(history) :
       \A j \in 1 .. (k - 1) : HonoursRound(history[k].guess, j)
  /\ Selected => /\ \A j \in 1 .. Len(history) : HonoursRound(guess, j)
                 /\ enforce_hard_mode(guess, known_greens, known_yellows)
  /\ \A w \in Range(ALLOWED_GUESSES) :
       enforce_hard_mode(w, known_greens, known_yellows)
         <=> \A j \in Applied : HonoursRound(w, j)

\* A guess was submitted after a round that tagged one position Correct and
\* another Present.
C3_Witness ==
  \E k \in 2 .. Len(history) :
    \E j \in 1 .. (k - 1) :
      \E i, p \in Pos : /\ history[j].feedback[i] = "G"
                        /\ history[j].feedback[p] = "Y"

\* C4: the guess selected is a word of the non-empty pool whose partition of
\* the Candidate Set has the largest entropy (the smallest product of n^n), and
\* the first such word in pool order; a pool of one word yields that word.
C4_FirstMaximizerSelected ==
  Selected =>
    LET pool == CurrentPool
        at == {k \in 1 .. Len(pool) : pool[k] = guess}
    IN  /\ pool # <<>>
        /\ at # {}
        /\ \A k \in 1 .. Len(pool) :
             SizesProduct(guess, candidates) <= SizesProduct(pool[k], candidates)
        /\ \A k \in 1 .. Len(pool) :
             (\A j \in at : k < j) =>
               SizesProduct(guess, candidates) < SizesProduct(pool[k], candidates)
        /\ Len(pool) = 1 => guess = pool[1]

\* C5: no word is submitted twice in a game, and the set of guesses already
\* made only grows.
C5_NoGuessTwice ==
  /\ [](\A j, k \in 1 .. Len(history) :
          j # k => history[j].guess # history[k].guess)
  /\ [](Selected => guess \notin previous_guesses)
  /\ [][previous_guesses \subseteq previous_guesses']_vars

\* Three guesses were submitted and two of them recorded.
C5_Witness ==
  /\ Len(history) >= 3
  /\ Cardinality(previous_guesses) >= 2

\* C6: once known_greens maps a position to a letter, no step removes the entry
\* or gives it another letter, whatever the feedback is.
C6_GreensOnlyGrow ==
  [][\A i \in DOMAIN known_greens :
       i \in DOMAIN known_greens' /\ known_greens'[i] = known_greens[i]]_vars

\* A position confirmed in one round was tagged Correct again in a later one,
\* and another later round tagged it otherwise.
C6_Witness ==
  \E i \in DOMAIN known_greens :
    \E j, k, m \in Applied :
      /\ j < k
      /\ j < m
      /\ history[j].feedback[i] = "G"
      /\ history[k].feedback[i] = "G"
      /\ history[m].feedback[i] # "G"

\* C7: when the feedback of a round cannot be read the loop ends in Stuck: the
\* step changes neither the Candidate Set nor the constraints nor the counter,
\* no step follows it (no retry, no further guess), and the counter is the
\* number of rounds completed before.
C7_FeedbackUnavailableIsStuck ==
  /\ []((history # <<>> /\ history[Len(history)].feedback = Nothing) =>
          /\ status = "CouldNotRead"
          /\ Stuck
          /\ attempts = Len(history) - 1
          /\ Applied = 1 .. (Len(history) - 1))
  /\ [][status # "CouldNotRead"]_vars
  /\ [][status' = "CouldNotRead" =>
          /\ candidates' = candidates
          /\ known_greens' = known_greens
          /\ known_yellows' = known_yellows
          /\ previous_guesses' = previous_guesses
          /\ attempts' = attempts
          /\ guess' = guess
          /\ Len(history') = Len(history) + 1]_vars

\* The feedback of the third round could not be read.
C7_Witness ==
  /\ status = "CouldNotRead"
  /\ Len(history) = 3
  /\ attempts = 2

\* C8 as stated, in its parts about states: at most 6 guesses are submitted,
\* the counter does not pass the cap, and a game in which 6 guesses were
\* submitted, each answered by a feedback that was not all-Correct, has ended
\* in Exhausted.
C8_SixGuessesEndExhausted ==
  /\ Len(history) <= MaxAttempts
  /\ attempts <= MaxAttempts
  /\ (Len(history) = MaxAttempts /\ Applied = 1 .. MaxAttempts) =>
       status = "Exhausted"

\* C8 as amended: at most 6 guesses are submitted; every step either completes
\* a round and counts it, by exactly one, or ends the game without counting; a
\* game in which 6 guesses were each answered by a feedback that was not
\* all-Correct and that left a legal guess ends in Exhausted (a sixth feedback
\* that is missing or leaves no legal guess ends it in Stuck); and one of
\* Solved, Stuck and Exhausted is reached.
C8_TerminatesWithinCap ==
  /\ [](/\ Len(history) <= MaxAttempts
        /\ attempts <= MaxAttempts
        /\ status = "Exhausted" <=> attempts = MaxAttempts
        /\ status = "Exhausted" <=>
             /\ Len(history) = MaxAttempts
             /\ Applied = 1 .. MaxAttempts
             /\ CurrentPool # <<>>)
  /\ [][\/ /\ attempts' = attempts + 1
           /\ Len(history') = attempts'
           /\ status' \in {"Guessing", "Exhausted"}
        \/ /\ attempts' = attempts
           /\ status' \in {"Solved", "CouldNotRead", "NoValidGuesses"}]_vars
  /\ <>Terminal

\* Six rounds were completed and the loop ended at the cap.
C8_Witness ==
  /\ status = "Exhausted"
  /\ Len(history) = MaxAttempts
  /\ attempts = MaxAttempts

C10_TruthfulNeverOutOfGuesses ==
  \A a \in Range(ALLOWED_GUESSES) :
    (Truthful(a) /\ status # "Solved") =>
      /\ enforce_hard_mode(a, known_greens, known_yellows)
      /\ a \notin previous_guesses
      /\ a \in Range(CurrentPool)
      /\ status # "NoValidGuesses"

\* Three truthful rounds, none all-Correct, with a Correct and a Present tag
\* among them.
C10_Witness ==
  /\ Len(history) >= 3
  /\ \E a \in Range(ALLOWED_GUESSES) : Truthful(a)
  /\ status # "Solved"
  /\ DOMAIN known_greens # {}
  /\ DOMAIN known_yellows # {}

====
